---------------------------- MODULE Spec2Model ----------------------------
(***************************************************************************)
(* A model of compare.py: the two invoice line classifiers (parse_fedex,   *)
(* parse_evri), the carrier-B row categorizer (clean_evri,                 *)
(* split_evri_core), the metrics aggregators (compute_fedex_metrics,       *)
(* get_evri_fuel_total, compute_evri_metrics) and the pipeline of main.    *)
(*                                                                         *)
(* Text is modelled character by character: a line is a sequence of        *)
(* one-character strings and the regular expressions are evaluated on it   *)
(* with Python's greedy / lazy backtracking order.  A float read from a    *)
(* decimal token is the pair [m, e] standing for m / 10^e with trailing    *)
(* zeros removed, so "1.20" and "1.2" are the same number.  Money inside   *)
(* the aggregators is an integer number of thousandths.                    *)
(***************************************************************************)
EXTENDS Integers, Sequences, FiniteSets, TLC

VARIABLES
    pc,               \* position in the run being modelled
    text,             \* the text handed to a line classifier (sequence of lines)
    rows,             \* the rows a line classifier returned
    error,            \* "none", or the exception that ended the run
    files,            \* the file system: name -> Missing or the document's text
    fedex_files,      \* main: the FedEx file names entered
    evri_files,       \* main: the Evri file names entered
    idx,              \* main: position of the for loop in the current list
    fedex_frames,     \* main: fedex_frames
    evri_frames,      \* main: evri_frames
    warnings,         \* main: the "file not found" warnings printed so far
    fedex_df,         \* the carrier-A record table (a data frame)
    evri_df,          \* the carrier-B record table (a data frame)
    evri_core,        \* clean_evri: rows with value > 0
    evri_excluded,    \* clean_evri: rows with value == 0
    evri_despatch,    \* split_evri_core: despatch rows
    evri_extras,      \* split_evri_core: extra rows
    fedex_anomalies,  \* main: the carrier-A rows with charge <= 0
    evri_fuel_total,  \* get_evri_fuel_total's result, in thousandths
    fixed_rate,       \* the fixed rate handed to the aggregator, in thousandths
    fedex_metrics,    \* compute_fedex_metrics' result
    evri_metrics,     \* compute_evri_metrics' result
    divided,          \* whether the aggregator that ran performed its division
    written,          \* main: the CSV tables written so far
    message           \* main: the terminal message printed, "" if none

vars == <<pc, text, rows, error, files, fedex_files, evri_files, idx,
          fedex_frames, evri_frames, warnings, fedex_df, evri_df, evri_core,
          evri_excluded, evri_despatch, evri_extras, fedex_anomalies,
          evri_fuel_total,
          fixed_rate, fedex_metrics, evri_metrics, divided, written, message>>

-----------------------------------------------------------------------------
(* Characters and the character classes of the regular expressions.        *)

DigitSeq == <<"0", "1", "2", "3", "4", "5", "6", "7", "8", "9">>
UpperSeq == <<"A", "B", "C", "D", "E", "F", "G", "H", "I", "J", "K", "L", "M",
              "N", "O", "P", "Q", "R", "S", "T", "U", "V", "W", "X", "Y", "Z">>
LowerSeq == <<"a", "b", "c", "d", "e", "f", "g", "h", "i", "j", "k", "l", "m",
              "n", "o", "p", "q", "r", "s", "t", "u", "v", "w", "x", "y", "z">>

Range(s) == {s[i] : i \in DOMAIN s}

\* \d
Digit == Range(DigitSeq)
\* \s
Space == {" ", "\t"}
\* [\d,]
DigitOrComma == Digit \cup {","}
\* [A-Z]
Upper == Range(UpperSeq)

\* The value of a digit character.
DigitVal(c) == (CHOOSE i \in DOMAIN DigitSeq : DigitSeq[i] = c) - 1

\* The lower-case form of a character (re.IGNORECASE compares these).
LowerChar(c) ==
    IF c \in Upper
    THEN LowerSeq[CHOOSE i \in DOMAIN UpperSeq : UpperSeq[i] = c]
    ELSE c

\* A greedy run X+ / X* starting at position i: the position of its last
\* character, i - 1 when the run is empty.
RunEnd(s, i, class) ==
    CHOOSE j \in (i - 1)..Len(s) :
        /\ \A k \in i..j : s[k] \in class
        /\ (j = Len(s) \/ s[j + 1] \notin class)

Min(S) == CHOOSE x \in S : \A y \in S : x <= y
Max(S) == CHOOSE x \in S : \A y \in S : x >= y

RECURSIVE Pow10(_)
Pow10(n) == IF n = 0 THEN 1 ELSE 10 * Pow10(n - 1)

-----------------------------------------------------------------------------
(* float(): the number a decimal token stands for.                         *)

\* The digits of a token read as one integer, its "." and "," skipped.
RECURSIVE DigitsValue(_)
DigitsValue(tok) ==
    IF tok = <<>> THEN 0
    ELSE LET c == tok[Len(tok)]
             rest == SubSeq(tok, 1, Len(tok) - 1)
         IN  IF c \in Digit THEN 10 * DigitsValue(rest) + DigitVal(c)
             ELSE DigitsValue(rest)

\* m / 10^e with the trailing zeros of the fraction removed.
RECURSIVE Normal(_, _)
Normal(m, e) ==
    IF e > 0 /\ m % 10 = 0 THEN Normal(m \div 10, e - 1) ELSE [m |-> m, e |-> e]

\* The number of characters after the "." of a token.
FracLen(tok) ==
    Len(tok) - (CHOOSE i \in DOMAIN tok : tok[i] = ".")

\* float(tok) for a token of the form digits "." digits (the digits part
\* may be empty once the grouping separators are removed).
ToFloat(tok) == Normal(DigitsValue(tok), FracLen(tok))

\* str.replace(",", "")
RECURSIVE StripCommas(_)
StripCommas(tok) ==
    IF tok = <<>> THEN <<>>
    ELSE IF Head(tok) = "," THEN StripCommas(Tail(tok))
    ELSE <<Head(tok)>> \o StripCommas(Tail(tok))

-----------------------------------------------------------------------------
(* parse_fedex                                                             *)

\* re.match(r"^(\d{9,})\s+(\d{2}/\d{2}/\d{4})", line): the spans of the two
\* groups, or <<>> when the line does not match.  The digit run and the
\* white space run are greedy, and giving characters back never helps: the
\* character after a shorter run belongs to the run's own class.
FedexMatch(line) ==
    LET n == RunEnd(line, 1, Digit)
        w == RunEnd(line, n + 1, Space)
        d == w + 1
    IN  IF /\ n >= 9
           /\ w >= n + 1
           /\ Len(line) >= d + 9
           /\ \A k \in {d, d + 1, d + 3, d + 4, d + 6, d + 7, d + 8, d + 9} :
                  line[k] \in Digit
           /\ line[d + 2] = "/"
           /\ line[d + 5] = "/"
        THEN <<[number |-> SubSeq(line, 1, n), date |-> SubSeq(line, d, d + 9)]>>
        ELSE <<>>

\* A match of \d+\.\d+ starting exactly at position i: the position of its
\* last character, 0 when there is none.
DecimalAt(line, i) ==
    LET a == RunEnd(line, i, Digit)
        b == RunEnd(line, a + 2, Digit)
    IN  IF a >= i /\ a + 1 <= Len(line) /\ line[a + 1] = "." /\ b >= a + 2
        THEN b ELSE 0

\* re.findall(r"\d+\.\d+", line) from position p on: the matches, left to
\* right and not overlapping (the scan resumes after the end of a match).
RECURSIVE FindDecimals(_, _)
FindDecimals(line, p) ==
    IF p > Len(line) THEN <<>>
    ELSE LET b == DecimalAt(line, p)
         IN  IF b = 0 THEN FindDecimals(line, p + 1)
             ELSE <<SubSeq(line, p, b)>> \o FindDecimals(line, b + 1)

\* ParseFedexLine taking the first decimal of the line instead of the last.
ParseFedexLine_FirstDecimal(line) ==
    LET m == FedexMatch(line)
        nums == FindDecimals(line, 1)
    IN  IF m = <<>> THEN <<>>
        ELSE IF nums = <<>> THEN <<>>
        ELSE <<[shipment_number |-> m[1].number,
                shipment_date |-> m[1].date,
                charge |-> ToFloat(nums[1]),
                raw_line |-> line]>>

\* One iteration of parse_fedex's loop: the rows the line adds.
ParseFedexLine(line) ==
    LET m == FedexMatch(line)
        nums == FindDecimals(line, 1)
    IN  IF m = <<>> THEN <<>>
        ELSE IF nums = <<>> THEN <<>>
        ELSE <<[shipment_number |-> m[1].number,
                shipment_date |-> m[1].date,
                charge |-> ToFloat(nums[Len(nums)]),
                raw_line |-> line]>>

\* parse_fedex's loop over text.splitlines().
RECURSIVE ParseFedexRows(_)
ParseFedexRows(lines) ==
    IF lines = <<>> THEN <<>>
    ELSE ParseFedexLine(Head(lines)) \o ParseFedexRows(Tail(lines))

-----------------------------------------------------------------------------
(* parse_evri                                                              *)

\* The pattern of parse_evri is
\*   ^\s*(.+?)\s+([\d,]+)\s+(\d+\.\d+)\s+[A-Z]\s+([\d,]+\.\d+)
\* Every run after the service name is greedy and is followed by a
\* character outside its class, so the longest run is the only one that can
\* match: the part after the name matches in one way or not at all.  The
\* operators below match it piece by piece; each gives <<>> for no match.

\* A token that starts at p, whose first run ends at h: "." and a run of
\* digits must follow.  <<the token>> or <<>>.
DecimalTail(line, p, h) ==
    IF /\ h >= p
       /\ h + 1 <= Len(line) /\ line[h + 1] = "."
       /\ h + 2 <= Len(line) /\ line[h + 2] \in Digit
    THEN <<SubSeq(line, p, RunEnd(line, h + 2, Digit))>>
    ELSE <<>>

\* ([\d,]+\.\d+) from position p: the value token.
EvriValueAt(line, p) == DecimalTail(line, p, RunEnd(line, p, DigitOrComma))

\* [A-Z]\s+([\d,]+\.\d+) after white space that starts at p and ends at f.
VatTail(line, p, f) ==
    IF /\ f >= p
       /\ f + 1 <= Len(line) /\ line[f + 1] \in Upper
       /\ f + 2 <= Len(line) /\ line[f + 2] \in Space
    THEN EvriValueAt(line, RunEnd(line, f + 2, Space) + 1)
    ELSE <<>>

\* \s+[A-Z]\s+([\d,]+\.\d+) from position p: the value token.
EvriVatAt(line, p) == VatTail(line, p, RunEnd(line, p, Space))

\* The value token after a price token.
ValueAfter(line, price) ==
    IF price = <<>> THEN <<>> ELSE EvriVatAt(line, price[1].last + 1)

\* (\d+\.\d+) from position p: the token and its last position.
PriceToken(line, p, tok) ==
    IF tok = <<>> THEN <<>>
    ELSE <<[tok |-> tok[1], last |-> p + Len(tok[1]) - 1]>>

\* price and value tokens put together.
PriceAndValue(price, value) ==
    IF value = <<>> THEN <<>>
    ELSE <<[price |-> price[1].tok, value |-> value[1]]>>

PriceThenValue(line, price) == PriceAndValue(price, ValueAfter(line, price))

\* (\d+\.\d+)\s+[A-Z]\s+([\d,]+\.\d+) from position p: price and value.
EvriPriceAt(line, p) ==
    PriceThenValue(line,
        PriceToken(line, p, DecimalTail(line, p, RunEnd(line, p, Digit))))

\* The quantity token a + 1 .. b put before price and value.
WithQuantity(line, a, b, pv) ==
    IF pv = <<>> THEN <<>>
    ELSE <<[quantity |-> SubSeq(line, a + 1, b),
            price |-> pv[1].price,
            value |-> pv[1].value]>>

\* \s+(\d+\.\d+)... after a quantity token a + 1 .. b.
AfterQuantity(line, a, b, c) ==
    IF b >= a + 1 /\ c >= b + 1
    THEN WithQuantity(line, a, b, EvriPriceAt(line, c + 1))
    ELSE <<>>

\* ([\d,]+)\s+... after white space that ends at a.
QuantityAt(line, a, b) == AfterQuantity(line, a, b, RunEnd(line, b + 1, Space))

\* \s+([\d,]+)\s+ and the rest, from the position after a service name that
\* ends at j: quantity, price and value.
SuffixFrom(line, j, a) ==
    IF a >= j + 1
    THEN QuantityAt(line, a, RunEnd(line, a + 1, DigitOrComma))
    ELSE <<>>

EvriSuffix(line, j) == SuffixFrom(line, j, RunEnd(line, j + 1, Space))

\* The ends j of the service names that start after s0 leading characters
\* and let the rest of the pattern match.
EvriNameEnds(line, s0) ==
    {j \in (s0 + 1)..Len(line) : EvriSuffix(line, j) /= <<>>}

\* The numbers s0 of leading white space characters ^\s* may take.
EvriNameStarts(line) ==
    {s0 \in 0..RunEnd(line, 1, Space) : EvriNameEnds(line, s0) /= {}}

\* The groups of the match whose service name is s0 + 1 .. j.
EvriGroups(line, s0, j, suffix) ==
    <<[service |-> SubSeq(line, s0 + 1, j),
       quantity |-> suffix[1].quantity,
       price |-> suffix[1].price,
       value |-> suffix[1].value]>>

\* (.+?) is lazy: the shortest name first.
ShortestName(line, s0, j) == EvriGroups(line, s0, j, EvriSuffix(line, j))

\* ^\s* is greedy: the longest leading white space first.
LongestLead(line, s0) == ShortestName(line, s0, Min(EvriNameEnds(line, s0)))

FirstMatch(line, starts) ==
    IF starts = {} THEN <<>> ELSE LongestLead(line, Max(starts))

\* re.match(pattern, line): the first combination of leading white space and
\* service name whose rest matches wins.
EvriMatch(line) == FirstMatch(line, EvriNameStarts(line))

\* str.strip()
RECURSIVE Strip(_)
Strip(s) ==
    IF s = <<>> THEN <<>>
    ELSE IF Head(s) \in Space THEN Strip(Tail(s))
    ELSE IF s[Len(s)] \in Space THEN Strip(SubSeq(s, 1, Len(s) - 1))
    ELSE s

\* int(s) raises ValueError when s holds no digit.
IntFails(s) == s = <<>>

\* The record parse_evri appends for a match m of the line, or the
\* ValueError of int() on a quantity token that is nothing but commas.
EvriRecord(line, m) ==
    IF m = <<>> THEN [raised |-> FALSE, rows |-> <<>>]
    ELSE IF IntFails(StripCommas(m[1].quantity))
    THEN [raised |-> TRUE, rows |-> <<>>]
    ELSE [raised |-> FALSE,
          rows |-> <<[service |-> Strip(m[1].service),
                      quantity |-> DigitsValue(StripCommas(m[1].quantity)),
                      price |-> ToFloat(m[1].price),
                      value |-> ToFloat(StripCommas(m[1].value)),
                      raw_line |-> line]>>]

\* One iteration of parse_evri's loop.
ParseEvriLine(line) == EvriRecord(line, EvriMatch(line))

\* An exception in one line ends the function, and the rows collected so
\* far are lost with it.
ThenParsed(first, rest) ==
    IF first.raised \/ rest.raised
    THEN [raised |-> TRUE, rows |-> <<>>]
    ELSE [raised |-> FALSE, rows |-> first.rows \o rest.rows]

\* parse_evri's loop over text.splitlines().
RECURSIVE ParseEvriRows(_)
ParseEvriRows(lines) ==
    IF lines = <<>> THEN [raised |-> FALSE, rows |-> <<>>]
    ELSE ThenParsed(ParseEvriLine(Head(lines)), ParseEvriRows(Tail(lines)))

-----------------------------------------------------------------------------
(* Data frames: the set of column names and the sequence of rows.          *)
(* pd.DataFrame([]) has no column at all, which is what makes a later      *)
(* df["value"] raise KeyError.                                             *)

FedexColumns == {"shipment_number", "shipment_date", "charge", "raw_line"}
EvriColumns == {"service", "quantity", "price", "value", "raw_line"}

\* pd.DataFrame(rows)
DataFrame(r, columns) ==
    [cols |-> IF r = <<>> THEN {} ELSE columns, rows |-> r]

EmptyFrame == [cols |-> {}, rows |-> <<>>]

\* df["source_file"] = name
WithSourceFile(df, name) ==
    [cols |-> df.cols \cup {"source_file"},
     rows |-> [i \in DOMAIN df.rows |-> df.rows[i] @@ [source_file |-> name]]]

\* pd.concat(frames, ignore_index=True)
RECURSIVE Concat(_)
Concat(frames) ==
    IF frames = <<>> THEN EmptyFrame
    ELSE LET rest == Concat(Tail(frames))
         IN  [cols |-> Head(frames).cols \cup rest.cols,
              rows |-> Head(frames).rows \o rest.rows]

\* df[mask]: the rows at the positions of keep, in order; the columns stay.
RECURSIVE SelectRows(_, _, _)
SelectRows(r, keep, i) ==
    IF i > Len(r) THEN <<>>
    ELSE (IF i \in keep THEN <<r[i]>> ELSE <<>>) \o SelectRows(r, keep, i + 1)

-----------------------------------------------------------------------------
(* clean_evri and split_evri_core                                          *)

\* Series.str.contains(pat, case=False): pat occurs somewhere in s, letter
\* case ignored.  The patterns used hold no regular expression operator.
Contains(s, pat) ==
    \E i \in 1..(Len(s) - Len(pat) + 1) :
        \A k \in 1..Len(pat) : LowerChar(s[i + k - 1]) = LowerChar(pat[k])

PatDespatch == <<"D", "e", "s", "p", "a", "t", "c", "h">>
PatParcel == <<"P", "a", "r", "c", "e", "l">>
PatPacket == <<"P", "a", "c", "k", "e", "t">>
PatReturn == <<"R", "e", "t", "u", "r", "n">>
PatRepackaged == <<"R", "e", "p", "a", "c", "k", "a", "g", "e", "d">>
PatFuel == <<"F", "u", "e", "l">>

\* CleanCore keeping the rows of value 0 as well (>= for >).
CleanCore_NonNegative(df) ==
    [cols |-> df.cols,
     rows |-> SelectRows(df.rows, {i \in DOMAIN df.rows : df.rows[i].value.m >= 0}, 1)]

\* evri_df[evri_df["value"] > 0]
CleanCore(df) ==
    [cols |-> df.cols,
     rows |-> SelectRows(df.rows, {i \in DOMAIN df.rows : df.rows[i].value.m > 0}, 1)]

\* evri_df[evri_df["value"] == 0]
CleanExcluded(df) ==
    [cols |-> df.cols,
     rows |-> SelectRows(df.rows, {i \in DOMAIN df.rows : df.rows[i].value.m = 0}, 1)]

DespatchLike(x) ==
    \/ Contains(x.service, PatDespatch)
    \/ Contains(x.service, PatParcel)
    \/ Contains(x.service, PatPacket)

IsReturn(x) == Contains(x.service, PatReturn)

IsRepack(x) == Contains(x.service, PatRepackaged)

\* IsDespatchRow without the repackaging exclusion.
IsDespatchRow_NoRepack(x) == DespatchLike(x) /\ ~IsReturn(x)

\* despatch_like_mask & ~return_mask & ~repack_mask
IsDespatchRow(x) == DespatchLike(x) /\ ~IsReturn(x) /\ ~IsRepack(x)

\* evri_core[despatch_like_mask & ~return_mask & ~repack_mask]
SplitDespatch(core) ==
    [cols |-> core.cols,
     rows |-> SelectRows(core.rows,
                         {i \in DOMAIN core.rows : IsDespatchRow(core.rows[i])},
                         1)]

\* evri_core[~(despatch_like_mask & ~return_mask & ~repack_mask)]
SplitExtras(core) ==
    [cols |-> core.cols,
     rows |-> SelectRows(core.rows,
                         {i \in DOMAIN core.rows : ~IsDespatchRow(core.rows[i])},
                         1)]

-----------------------------------------------------------------------------
(* The metrics helpers.  Amounts are integers counting thousandths.        *)

\* A float of at most three decimals (an invoice amount) in thousandths.
Thousandths(f) == f.m * Pow10(3 - f.e)

\* Series.sum() of a column of integers.
RECURSIVE Sum(_)
Sum(column) ==
    IF column = <<>> THEN 0 ELSE Head(column) + Sum(Tail(column))

\* df["charge"], df["value"] in thousandths, and df["quantity"].
ChargeColumn(r) == [i \in DOMAIN r |-> Thousandths(r[i].charge)]
ValueColumn(r) == [i \in DOMAIN r |-> Thousandths(r[i].value)]
QuantityColumn(r) == [i \in DOMAIN r |-> r[i].quantity]

\* round(n / d, 3) for the quotient of n thousandths by d > 0, in
\* thousandths.  Python rounds the binary float, so an exact half (n / d
\* ending in ...5 ten-thousandths) goes up or down with the float's last
\* bit: round(0.001 / 2, 3) is 0.001 and round(6.201 / 2, 3) is 3.1.  Both
\* neighbours are possible outcomes of a half.
Round3(n, d) ==
    LET q == n \div d
        r == n % d
    IN  IF 2 * r < d THEN {q}
        ELSE IF 2 * r > d THEN {q + 1}
        ELSE {q, q + 1}

\* StatusOf with zero merged into the branch below the rate (<= for <).
StatusOf_ZeroIsUnder(variance) ==
    IF variance > 0 THEN "Over the fixed rate"
    ELSE IF variance <= 0 THEN "Under the fixed rate"
    ELSE "On the fixed rate"

StatusOf(variance) ==
    IF variance > 0 THEN "Over the fixed rate"
    ELSE IF variance < 0 THEN "Under the fixed rate"
    ELSE "On the fixed rate"

NoData ==
    [despatches |-> 0, spend |-> 0, avg_cost |-> 0, variance |-> 0,
     total_difference |-> 0, status |-> "No data"]

\* MetricsFrom with total_difference taken from the unrounded difference,
\* spend - fixed_rate * despatches.
MetricsFrom_TotalFromSpend(despatches, raw_spend, rate) ==
    UNION {UNION {
        {[despatches |-> despatches, spend |-> spend, avg_cost |-> avg_cost,
          variance |-> variance,
          total_difference |-> spend - rate * despatches,
          status |-> IF variance > 0 THEN "Over the fixed rate"
                     ELSE IF variance < 0 THEN "Under the fixed rate"
                     ELSE "On the fixed rate"] :
          variance \in Round3(avg_cost - rate, 1)} :
        avg_cost \in Round3(spend, despatches)} :
      spend \in Round3(raw_spend, 1)}

\* The four rounded assignments both aggregators share, from the unrounded
\* spend: spend, avg_cost, variance, total_difference, then the status.
MetricsFrom(despatches, raw_spend, rate) ==
    UNION {UNION {UNION {
        {[despatches |-> despatches, spend |-> spend, avg_cost |-> avg_cost,
          variance |-> variance, total_difference |-> total_difference,
          status |-> StatusOf(variance)] :
            total_difference \in Round3(variance * despatches, 1)} :
          variance \in Round3(avg_cost - rate, 1)} :
        avg_cost \in Round3(spend, despatches)} :
      spend \in Round3(raw_spend, 1)}

\* compute_fedex_metrics(fedex_df, fixed_rate): the possible results.
ComputeFedexMetrics(df, rate) ==
    LET despatches == Len(df.rows)
    IN  IF despatches = 0 THEN {NoData}
        ELSE MetricsFrom(despatches, Sum(ChargeColumn(df.rows)), rate)

\* Whether compute_fedex_metrics reaches its division (line 210).
FedexDivides(df) == Len(df.rows) /= 0

\* GetEvriFuelTotal summing every extra row, whatever its name.
GetEvriFuelTotal_AllExtras(extras) ==
    CHOOSE t \in Round3(Sum(ValueColumn(extras.rows)), 1) : TRUE

\* get_evri_fuel_total(evri_extras)
GetEvriFuelTotal(extras) ==
    LET fuel_rows ==
            SelectRows(extras.rows,
                       {i \in DOMAIN extras.rows :
                            Contains(extras.rows[i].service, PatFuel)},
                       1)
    IN  CHOOSE t \in Round3(Sum(ValueColumn(fuel_rows)), 1) : TRUE

\* ComputeEvriMetrics reporting the money of a bucket without despatches.
ComputeEvriMetrics_KeepsSpend(despatch, rate, fuel_total) ==
    LET despatches == Sum(QuantityColumn(despatch.rows))
        base_spend == Sum(ValueColumn(despatch.rows))
    IN  IF despatches = 0
        THEN {[despatches |-> 0, spend |-> base_spend + fuel_total, avg_cost |-> 0,
               variance |-> 0, total_difference |-> 0, status |-> "No data"]}
        ELSE {[despatches |-> despatches, spend |-> base_spend + fuel_total,
               avg_cost |-> a, variance |-> a - rate,
               total_difference |-> (a - rate) * despatches,
               status |-> IF a > rate THEN "Over the fixed rate"
                          ELSE IF a < rate THEN "Under the fixed rate"
                          ELSE "On the fixed rate"] :
                 a \in Round3(base_spend + fuel_total, despatches)}

\* compute_evri_metrics(evri_despatch, fixed_rate, fuel_total): the possible
\* results.
ComputeEvriMetrics(despatch, rate, fuel_total) ==
    LET despatches == Sum(QuantityColumn(despatch.rows))
        base_spend == Sum(ValueColumn(despatch.rows))
    IN  IF despatches = 0 THEN {NoData}
        ELSE MetricsFrom(despatches, base_spend + fuel_total, rate)

\* Whether compute_evri_metrics reaches its division (line 259).
EvriDivides(despatch) == Sum(QuantityColumn(despatch.rows)) /= 0

-----------------------------------------------------------------------------
(* Values of the variables a specification does not use.                   *)

Unset ==
    [despatches |-> 0, spend |-> 0, avg_cost |-> 0, variance |-> 0,
     total_difference |-> 0, status |-> "unset"]

textVars == <<text, rows>>
mainVars == <<files, fedex_files, evri_files, idx, fedex_frames, evri_frames,
              warnings, written, message>>
tableVars == <<fedex_df, evri_df, evri_core, evri_excluded, evri_despatch,
               evri_extras, fedex_anomalies>>
metricVars == <<evri_fuel_total, fixed_rate, fedex_metrics, evri_metrics,
                divided>>

TextIdle == text = <<>> /\ rows = <<>>

MainIdle ==
    /\ files = <<>>
    /\ fedex_files = <<>>
    /\ evri_files = <<>>
    /\ idx = 0
    /\ fedex_frames = <<>>
    /\ evri_frames = <<>>
    /\ warnings = <<>>
    /\ written = {}
    /\ message = ""

TablesIdle ==
    /\ fedex_df = EmptyFrame
    /\ evri_df = EmptyFrame
    /\ evri_core = EmptyFrame
    /\ evri_excluded = EmptyFrame
    /\ evri_despatch = EmptyFrame
    /\ evri_extras = EmptyFrame
    /\ fedex_anomalies = EmptyFrame

MetricsIdle ==
    /\ evri_fuel_total = 0
    /\ fixed_rate = 0
    /\ fedex_metrics = Unset
    /\ evri_metrics = Unset
    /\ divided = FALSE

\* All sequences over S of length at most n.
SeqsUpTo(S, n) == UNION {[1..k -> S] : k \in 0..n}

RECURSIVE Flatten(_)
Flatten(ss) == IF ss = <<>> THEN <<>> ELSE Head(ss) \o Flatten(Tail(ss))

-----------------------------------------------------------------------------
(* SpecFedex: parse_fedex on one line of text.  A line is one of a few     *)
(* beginnings followed by at most MaxFedexPieces pieces.                   *)

MaxFedexPieces == 4

FedexHeads ==
    { <<"1", "2", "3", "4", "5", "6", "7", "8", "9", " ", "1", "3", "/", "1", "0", "/", "2", "0", "2", "5">>,
      <<"1", "2", "3", "4", "5", "6", "7", "8", "9", "0", "\t", " ", "0", "1", "/", "0", "2", "/", "2", "0", "2", "5">>,
      <<"1", "2", "3", "4", "5", "6", "7", "8", " ", "1", "3", "/", "1", "0", "/", "2", "0", "2", "5">>,
      <<" ", "1", "2", "3", "4", "5", "6", "7", "8", "9", " ", "1", "3", "/", "1", "0", "/", "2", "0", "2", "5">>,
      <<"1", "2", "3", "4", "5", "6", "7", "8", "9", " ", "1", "3", "-", "1", "0", "-", "2", "0", "2", "5">> }

FedexPieces ==
    { <<" ">>, <<"A">>, <<" ", "7">>, <<".", "3">>, <<"1", ".", "2">>,
      <<"2", ".", "1", "0">> }

FedexLines ==
    {h \o Flatten(ps) : h \in FedexHeads, ps \in SeqsUpTo(FedexPieces, MaxFedexPieces)}

InitFedex ==
    /\ pc = "parse"
    /\ text \in {<<l>> : l \in FedexLines}
    /\ rows = <<>>
    /\ error = "none"
    /\ MainIdle /\ TablesIdle /\ MetricsIdle

\* parse_fedex(text), up to the rows it collects.
ParseFedex ==
    /\ pc = "parse"
    /\ rows' = ParseFedexRows(text)
    /\ pc' = "done"
    /\ UNCHANGED <<text, error, mainVars, tableVars, metricVars>>

NextFedex == ParseFedex

SpecFedex == InitFedex /\ [][NextFedex]_vars

-----------------------------------------------------------------------------
(* What the claims about parse_fedex speak of, stated on the line itself.  *)

\* The line starts with at least 9 digits, then white space, then a
\* dd/mm/yyyy token.
Qualifies(line) ==
    \E n \in 9..Len(line), w \in 1..Len(line) :
        LET d == n + w + 1
        IN  /\ d + 9 <= Len(line)
            /\ \A k \in 1..n : line[k] \in Digit
            /\ \A k \in (n + 1)..(n + w) : line[k] \in Space
            /\ \A k \in {d, d + 1, d + 3, d + 4, d + 6, d + 7, d + 8, d + 9} :
                   line[k] \in Digit
            /\ line[d + 2] = "/"
            /\ line[d + 5] = "/"

\* line[i..j] has the form digits "." digits.
IsDecimal(line, i, j) ==
    \E k \in (i + 1)..(j - 1) :
        /\ line[k] = "."
        /\ \A x \in (i..j) \ {k} : line[x] \in Digit

\* The decimal tokens of the line: the substrings of that form that no
\* further digit extends on either side.
DecimalTokens(line) ==
    {t \in (1..Len(line)) \X (1..Len(line)) :
        /\ IsDecimal(line, t[1], t[2])
        /\ (t[1] = 1 \/ line[t[1] - 1] \notin Digit)
        /\ (t[2] = Len(line) \/ line[t[2] + 1] \notin Digit)}

\* The last of a non-empty set of tokens, by position in the line.
LastOf(tokens) == CHOOSE t \in tokens : \A u \in tokens : u[2] <= t[2]

\* The first position of the digit run that ends at position e.
RunStart(line, e) ==
    CHOOSE b \in 1..e :
        /\ \A k \in b..e : line[k] \in Digit
        /\ (b = 1 \/ line[b - 1] \notin Digit)

\* The number of groups "digits ." that lead, without a gap, up to the
\* digit run starting at position i (2 for the run 3 of 1.2.3).
RECURSIVE GroupsBefore(_, _)
GroupsBefore(line, i) ==
    IF i >= 3 /\ line[i - 1] = "." /\ line[i - 2] \in Digit
    THEN 1 + GroupsBefore(line, RunStart(line, i - 2))
    ELSE 0

\* The tokens left when every dotted chain d1.d2.d3.d4... is paired from
\* the left (d1.d2, d3.d4, ...): a token that begins inside the token
\* before it, as 2.3 does in 1.2.3, is not among them.
PairedTokens(line) ==
    {t \in DecimalTokens(line) : GroupsBefore(line, t[1]) % 2 = 0}

TokenValue(line, t) == ToFloat(SubSeq(line, t[1], t[2]))

\* C7 as stated: a qualifying line with a decimal token yields exactly one
\* record whose charge is the last substring of the form digits-dot-digits,
\* by position in the line; every other line yields no record.
C7_ChargeIsLastSubstring ==
    pc = "done" =>
        LET line == text[1]
        IN  IF Qualifies(line) /\ DecimalTokens(line) /= {}
            THEN /\ Len(rows) = 1
                 /\ rows[1].charge = TokenValue(line, LastOf(DecimalTokens(line)))
            ELSE rows = <<>>

\* C7 amended: a qualifying line with a decimal token yields exactly one
\* record whose charge is the last match of a left-to-right scan for
\* digits-dot-digits whose matches do not overlap (in a dotted chain the
\* groups pair from the left, so 1.2.3 gives 1.2), last by position and
\* not by magnitude; every other line yields no record.
C7_ChargeIsLastScanMatch ==
    pc = "done" =>
        LET line == text[1]
        IN  IF Qualifies(line) /\ DecimalTokens(line) /= {}
            THEN /\ Len(rows) = 1
                 /\ rows[1].charge = TokenValue(line, LastOf(PairedTokens(line)))
                 /\ rows[1].raw_line = line
            ELSE rows = <<>>

\* A qualifying line was parsed whose last decimal, 1.2, is smaller than
\* an earlier one, 2.10, and the record carries the last.
C7_Witness ==
    /\ pc = "done"
    /\ Len(rows) = 1
    /\ Qualifies(text[1])
    /\ rows[1].charge = [m |-> 12, e |-> 1]
    /\ \E t \in PairedTokens(text[1]) :
           TokenValue(text[1], t) = [m |-> 21, e |-> 1]

-----------------------------------------------------------------------------
(* SpecEvri: parse_evri on a text of one line, or of that line followed by *)
(* a well-formed service line.  A line is put together from one choice per *)
(* field of the five-part shape.                                           *)

EvriLeads == { <<>>, <<" ", " ">> }
EvriServiceNames == { <<"P", "a", "r", "c", "e", "l">>, <<"A", " ", "1">>, <<"T", "o", "t", "a", "l">> }
EvriQuantities == { <<"3", "6">>, <<"1", ",", "0", "0", "0">>, <<",">>, <<",", ",">>, <<"x">> }
EvriPrices == { <<"5", ".", "2", "8">>, <<"5">> }
EvriVatCodes == { <<"S">>, <<"s">> }
EvriValues == { <<"1", "9", "0", ".", "0", "8">>, <<"1", ",", "1", "9", "0", ".", "0", "8">>, <<",", ".", "5">>, <<"0", ".", "0", "0">>, <<"1", "9", "0">> }
EvriTrails == { <<>>, <<" ", "x">> }

EvriLines ==
    {ld \o nm \o <<" ">> \o qt \o <<" ">> \o pr \o <<" ">> \o vc \o <<" ">>
        \o vl \o tr :
        ld \in EvriLeads, nm \in EvriServiceNames, qt \in EvriQuantities,
        pr \in EvriPrices, vc \in EvriVatCodes, vl \in EvriValues,
        tr \in EvriTrails}

\* "Scottish Highlands & Islands Parcel 36 5.28 S 190.08"
GoodEvriLine ==
    <<"S", "c", "o", "t", "t", "i", "s", "h", " ", "H", "i", "g", "h", "l", "a", "n", "d", "s", " ", "&", " ",
      "I", "s", "l", "a", "n", "d", "s", " ", "P", "a", "r", "c", "e", "l", " ",
      "3", "6", " ", "5", ".", "2", "8", " ", "S", " ", "1", "9", "0", ".", "0", "8">>

InitEvri ==
    /\ pc = "parse"
    /\ text \in {<<l>> : l \in EvriLines} \cup {<<l, GoodEvriLine>> : l \in EvriLines}
    /\ rows = <<>>
    /\ error = "none"
    /\ MainIdle /\ TablesIdle /\ MetricsIdle

\* parse_evri(text), up to the rows it collects or the exception it raises.
ParseEvri ==
    /\ pc = "parse"
    /\ LET res == ParseEvriRows(text)
       IN  /\ rows' = res.rows
           /\ error' = IF res.raised THEN "ValueError" ELSE "none"
    /\ pc' = "done"
    /\ UNCHANGED <<text, mainVars, tableVars, metricVars>>

NextEvri == ParseEvri

SpecEvri == InitEvri /\ [][NextEvri]_vars

\* C10: parse_evri is total over lines: every line gives a complete record
\* (integer quantity >= 0, decimal price and value) or nothing, no numeric
\* conversion fails, and the lines after it are still extracted.
C10_ParseEvriTotal ==
    pc = "done" =>
        /\ error = "none"
        /\ \A i \in DOMAIN rows :
               /\ rows[i].quantity \in Nat
               /\ rows[i].price.m \in Nat
               /\ rows[i].value.m \in Nat
        /\ \A i \in DOMAIN text :
               text[i] = GoodEvriLine =>
                   \E k \in DOMAIN rows : rows[k].raw_line = GoodEvriLine

-----------------------------------------------------------------------------
(* The steps of main from the cleaning on (lines 380-393), shared by the   *)
(* pipeline of main and by the specification of the categorizer.           *)

\* fixed_rate_fedex = 3.10 and fixed_rate_evri = 2.44, in thousandths.
FixedRateFedex == 3100
FixedRateEvri == 2440

\* evri_core, evri_excluded = clean_evri(evri_df); evri_df["value"] raises
\* KeyError on a frame without that column.
CleanEvri ==
    /\ pc = "clean"
    /\ IF "value" \in evri_df.cols
       THEN /\ evri_core' = CleanCore(evri_df)
            /\ evri_excluded' = CleanExcluded(evri_df)
            /\ pc' = "split"
            /\ error' = error
       ELSE /\ pc' = "crashed"
            /\ error' = "KeyError"
            /\ UNCHANGED <<evri_core, evri_excluded>>
    /\ UNCHANGED <<textVars, mainVars, metricVars, fedex_df, evri_df,
                   evri_despatch, evri_extras, fedex_anomalies>>

\* evri_despatch, evri_extras = split_evri_core(evri_core)
SplitEvriCore ==
    /\ pc = "split"
    /\ evri_despatch' = SplitDespatch(evri_core)
    /\ evri_extras' = SplitExtras(evri_core)
    /\ pc' = "fuel"
    /\ UNCHANGED <<textVars, mainVars, metricVars, error, fedex_df, evri_df,
                   evri_core, evri_excluded, fedex_anomalies>>

\* evri_fuel_total = get_evri_fuel_total(evri_extras)
FuelTotal ==
    /\ pc = "fuel"
    /\ evri_fuel_total' = GetEvriFuelTotal(evri_extras)
    /\ pc' = "metrics"
    /\ UNCHANGED <<textVars, mainVars, tableVars, error, fixed_rate,
                   fedex_metrics, evri_metrics, divided>>

\* fedex_metrics = compute_fedex_metrics(fedex_df, fixed_rate_fedex);
\* evri_metrics = compute_evri_metrics(evri_despatch, fixed_rate_evri,
\*                                     fuel_total=evri_fuel_total)
Metrics ==
    /\ pc = "metrics"
    /\ fedex_metrics' \in ComputeFedexMetrics(fedex_df, FixedRateFedex)
    /\ evri_metrics' \in
           ComputeEvriMetrics(evri_despatch, FixedRateEvri, evri_fuel_total)
    /\ pc' = "anomalies"
    /\ UNCHANGED <<textVars, mainVars, tableVars, error, evri_fuel_total,
                   fixed_rate, divided>>

-----------------------------------------------------------------------------
(* SpecCat: the carrier-B steps on an arbitrary record table of at most    *)
(* MaxRecs rows.  A row is a service name with one of a few (quantity,     *)
(* value) pairs; the values include a negative one and zero.               *)

MaxRecs == 2

\* "Standard Parcel", "Parcel Repackaged", "Parcel Return Service",
\* "Fuel Surcharge", "PACKET", "SMS", "Parcel Fuel"
CatNames ==
    { <<"S", "t", "a", "n", "d", "a", "r", "d", " ", "P", "a", "r", "c", "e", "l">>,
      <<"P", "a", "r", "c", "e", "l", " ", "R", "e", "p", "a", "c", "k", "a", "g", "e", "d">>,
      <<"P", "a", "r", "c", "e", "l", " ", "R", "e", "t", "u", "r", "n", " ", "S", "e", "r", "v", "i", "c", "e">>,
      <<"F", "u", "e", "l", " ", "S", "u", "r", "c", "h", "a", "r", "g", "e">>,
      <<"P", "A", "C", "K", "E", "T">>,
      <<"S", "M", "S">>,
      <<"P", "a", "r", "c", "e", "l", " ", "F", "u", "e", "l">> }

\* (quantity, value): 40 at 100.00, 1 at 20.00, 1 at 0.00, 1 at -0.5
CatAmounts ==
    { <<40, [m |-> 100, e |-> 0]>>, <<1, [m |-> 20, e |-> 0]>>,
      <<1, [m |-> 0, e |-> 0]>>, <<1, [m |-> -5, e |-> 1]>> }

CatRecords ==
    {[service |-> n, quantity |-> a[1], value |-> a[2]] :
        n \in CatNames, a \in CatAmounts}

CatColumns == {"service", "quantity", "value"}

InitCat ==
    /\ pc = "clean"
    /\ evri_df \in {[cols |-> CatColumns, rows |-> r] :
                       r \in SeqsUpTo(CatRecords, MaxRecs)}
    /\ fedex_df = EmptyFrame
    /\ evri_core = EmptyFrame
    /\ evri_excluded = EmptyFrame
    /\ evri_despatch = EmptyFrame
    /\ evri_extras = EmptyFrame
    /\ fedex_anomalies = EmptyFrame
    /\ error = "none"
    /\ TextIdle /\ MainIdle /\ MetricsIdle

NextCat == CleanEvri \/ SplitEvriCore \/ FuelTotal \/ Metrics

SpecCat == InitCat /\ [][NextCat]_vars

-----------------------------------------------------------------------------
(* What the claims about the categorizer speak of.                         *)

\* How often the record x occurs among the rows r.
Count(x, r) == Cardinality({i \in DOMAIN r : r[i] = x})

\* The name in lower case, and the plain occurrence of a word in it.
Lowered(s) == [i \in DOMAIN s |-> LowerChar(s[i])]
HasWord(s, word) ==
    \E i \in 1..Len(s) :
        i + Len(word) - 1 <= Len(s) /\ SubSeq(Lowered(s), i, i + Len(word) - 1) = word

WordDespatch == <<"d", "e", "s", "p", "a", "t", "c", "h">>
WordParcel == <<"p", "a", "r", "c", "e", "l">>
WordPacket == <<"p", "a", "c", "k", "e", "t">>
WordReturn == <<"r", "e", "t", "u", "r", "n">>
WordRepackaged == <<"r", "e", "p", "a", "c", "k", "a", "g", "e", "d">>
WordFuel == <<"f", "u", "e", "l">>

\* The rule of the despatch / extra split as the claim states it.
DespatchByName(x) ==
    /\ \E w \in {WordDespatch, WordParcel, WordPacket} : HasWord(x.service, w)
    /\ ~HasWord(x.service, WordReturn)
    /\ ~HasWord(x.service, WordRepackaged)

Split == pc \in {"fuel", "metrics", "anomalies"}

\* C1 as stated: every input record, whatever its value, is in exactly one
\* of excluded, despatch, extra: as often in the three tables together as
\* in the input, and the tables hold nothing else.
C1_PartitionAllValues ==
    Split =>
        \A x \in CatRecords :
            Count(x, evri_excluded.rows) + Count(x, evri_despatch.rows)
                + Count(x, evri_extras.rows) = Count(x, evri_df.rows)

\* C1 amended: every input record with line_value >= 0 is in exactly one of
\* excluded, despatch, extra (excluded exactly when the value is 0); a
\* record with a negative line_value is in none of the three tables.
C1_PartitionNonNegative ==
    Split =>
        \A x \in CatRecords :
            LET n == Count(x, evri_df.rows)
                ex == Count(x, evri_excluded.rows)
                de == Count(x, evri_despatch.rows)
                xt == Count(x, evri_extras.rows)
            IN  /\ x.value.m > 0 => ex = 0 /\ de + xt = n /\ (de = 0 \/ xt = 0)
                /\ x.value.m = 0 => ex = n /\ de = 0 /\ xt = 0
                /\ x.value.m < 0 => ex = 0 /\ de = 0 /\ xt = 0

\* A table with a zero-value row and a positive row was split.
C1_Witness ==
    /\ Split
    /\ Len(evri_df.rows) = 2
    /\ Len(evri_excluded.rows) = 1
    /\ Len(evri_despatch.rows) + Len(evri_extras.rows) = 1

\* C8: a non-excluded record is despatch exactly when its name holds one of
\* Despatch, Parcel, Packet and neither Return nor Repackaged, letter case
\* ignored; every other non-excluded record is extra.
C8_DespatchRule ==
    Split =>
        \A x \in CatRecords :
            x.value.m > 0 =>
                IF DespatchByName(x)
                THEN /\ Count(x, evri_despatch.rows) = Count(x, evri_df.rows)
                     /\ Count(x, evri_extras.rows) = 0
                ELSE /\ Count(x, evri_despatch.rows) = 0
                     /\ Count(x, evri_extras.rows) = Count(x, evri_df.rows)

\* "Parcel Repackaged" went to extra next to a "Standard Parcel" in
\* despatch.
C8_Witness ==
    /\ Split
    /\ \E i \in DOMAIN evri_extras.rows :
           evri_extras.rows[i].service = <<"P", "a", "r", "c", "e", "l", " ", "R", "e", "p", "a", "c", "k", "a", "g", "e", "d">>
    /\ \E i \in DOMAIN evri_despatch.rows :
           evri_despatch.rows[i].service = <<"S", "t", "a", "n", "d", "a", "r", "d", " ", "P", "a", "r", "c", "e", "l">>

\* The rows of r that are despatch by the rule, and those that are extra
\* and name Fuel; both among the rows with a value above 0.
DespatchRowsOf(r) ==
    SelectRows(r, {i \in DOMAIN r : r[i].value.m > 0 /\ DespatchByName(r[i])}, 1)
FuelRowsOf(r) ==
    SelectRows(r, {i \in DOMAIN r : /\ r[i].value.m > 0
                                   /\ ~DespatchByName(r[i])
                                   /\ HasWord(r[i].service, WordFuel)}, 1)

\* C9: with a non-zero despatch count the spend is the value of the despatch
\* records plus the value of the extra records naming Fuel, each counted
\* once, and the count is the quantity of the despatch records alone.
C9_SpendAndCount ==
    (pc = "anomalies" /\ evri_metrics.status /= "No data") =>
        /\ evri_metrics.spend =
               Sum(ValueColumn(DespatchRowsOf(evri_df.rows)))
                   + Sum(ValueColumn(FuelRowsOf(evri_df.rows)))
        /\ evri_metrics.despatches =
               Sum(QuantityColumn(DespatchRowsOf(evri_df.rows)))

\* Despatch spend 100.00 and fuel 20.00 over 40 despatches at 2.44: spend
\* 120.00, average 3.00, variance 0.56, over the rate.
C9_Witness ==
    /\ pc = "anomalies"
    /\ Len(evri_despatch.rows) = 1
    /\ Len(evri_extras.rows) = 1
    /\ evri_fuel_total = 20000
    /\ evri_metrics = [despatches |-> 40, spend |-> 120000, avg_cost |-> 3000,
                       variance |-> 560, total_difference |-> 22400,
                       status |-> "Over the fixed rate"]

-----------------------------------------------------------------------------
(* SpecMetrics: one aggregator on an arbitrary bucket.  A carrier-A table  *)
(* holds at most MaxFedexRows rows (the sum does not depend on their       *)
(* order, so the rows are listed charge by charge); a carrier-B despatch   *)
(* bucket holds at most MaxDespatchRows rows and comes with any fuel       *)
(* total.                                                                  *)

MaxFedexRows == 10
MaxDespatchRows == 2

\* 0.0, 3.1 and 3.101
MetricCharges == <<[m |-> 0, e |-> 0], [m |-> 31, e |-> 1], [m |-> 3101, e |-> 3]>>

\* n rows of the same charge.
Repeat(charge, n) == [i \in 1..n |-> [charge |-> charge]]

FedexTables ==
    {[cols |-> IF n = <<0, 0, 0>> THEN {} ELSE {"charge"},
      rows |-> Repeat(MetricCharges[1], n[1]) \o Repeat(MetricCharges[2], n[2])
                   \o Repeat(MetricCharges[3], n[3])] :
        n \in {c \in (0..MaxFedexRows) \X (0..MaxFedexRows) \X (0..MaxFedexRows) :
                  c[1] + c[2] + c[3] <= MaxFedexRows}}

\* quantities 0, 2, 40 with values 0.001, 4.88, 100.0
DespatchRecords ==
    {[quantity |-> q, value |-> v] :
        q \in {0, 2, 40},
        v \in {[m |-> 1, e |-> 3], [m |-> 488, e |-> 2], [m |-> 100, e |-> 0]}}

DespatchTables ==
    {[cols |-> {"quantity", "value"}, rows |-> r] :
        r \in SeqsUpTo(DespatchRecords, MaxDespatchRows)}

\* fuel totals 0.0, 0.001 and 20.0
FuelTotals == {0, 1, 20000}

InitMetrics ==
    /\ pc \in {"fedex", "evri"}
    /\ IF pc = "fedex"
       THEN /\ fedex_df \in FedexTables
            /\ evri_despatch = EmptyFrame
            /\ evri_fuel_total = 0
            /\ fixed_rate = FixedRateFedex
       ELSE /\ fedex_df = EmptyFrame
            /\ evri_despatch \in DespatchTables
            /\ evri_fuel_total \in FuelTotals
            /\ fixed_rate = FixedRateEvri
    /\ evri_df = EmptyFrame
    /\ evri_core = EmptyFrame
    /\ evri_excluded = EmptyFrame
    /\ evri_extras = EmptyFrame
    /\ fedex_anomalies = EmptyFrame
    /\ fedex_metrics = Unset
    /\ evri_metrics = Unset
    /\ divided = FALSE
    /\ error = "none"
    /\ TextIdle /\ MainIdle

\* compute_fedex_metrics(fedex_df, fixed_rate)
RunFedexMetrics ==
    /\ pc = "fedex"
    /\ fedex_metrics' \in ComputeFedexMetrics(fedex_df, fixed_rate)
    /\ divided' = FedexDivides(fedex_df)
    /\ pc' = "fedex_done"
    /\ UNCHANGED <<textVars, mainVars, tableVars, error, evri_fuel_total,
                   fixed_rate, evri_metrics>>

\* compute_evri_metrics(evri_despatch, fixed_rate, fuel_total)
RunEvriMetrics ==
    /\ pc = "evri"
    /\ evri_metrics' \in
           ComputeEvriMetrics(evri_despatch, fixed_rate, evri_fuel_total)
    /\ divided' = EvriDivides(evri_despatch)
    /\ pc' = "evri_done"
    /\ UNCHANGED <<textVars, mainVars, tableVars, error, evri_fuel_total,
                   fixed_rate, fedex_metrics>>

NextMetrics == RunFedexMetrics \/ RunEvriMetrics

SpecMetrics == InitMetrics /\ [][NextMetrics]_vars

-----------------------------------------------------------------------------
(* What the claims about the aggregators speak of.                         *)

MetricsDone == pc \in {"fedex_done", "evri_done"}

\* The aggregator's result, its despatch count and its summed money (with
\* the supplement for carrier B), read off the input.
Result == IF pc = "fedex_done" THEN fedex_metrics ELSE evri_metrics
InputCount ==
    IF pc = "fedex_done" THEN Len(fedex_df.rows)
    ELSE Sum(QuantityColumn(evri_despatch.rows))
InputSpend ==
    IF pc = "fedex_done" THEN Sum(ChargeColumn(fedex_df.rows))
    ELSE Sum(ValueColumn(evri_despatch.rows)) + evri_fuel_total

\* C4: with a despatch count of zero either aggregator returns zero in
\* every numeric field and the status "No data", and does not divide.
C4_ZeroCountNoData ==
    (MetricsDone /\ InputCount = 0) =>
        /\ Result.despatches = 0
        /\ Result.spend = 0
        /\ Result.avg_cost = 0
        /\ Result.variance = 0
        /\ Result.total_difference = 0
        /\ Result.status = "No data"
        /\ ~divided

\* A carrier-B bucket with money in its rows and a fuel total, but
\* quantities summing to zero, was aggregated.
C4_Witness ==
    /\ pc = "evri_done"
    /\ Len(evri_despatch.rows) = 2
    /\ InputCount = 0
    /\ evri_fuel_total = 20000
    /\ evri_metrics.status = "No data"

\* C5: with a count above zero the status follows the sign of the returned
\* variance exactly, zero having a status of its own; "No data" is returned
\* only for a count of zero.
C5_StatusBySign ==
    MetricsDone =>
        /\ InputCount > 0 =>
               /\ Result.status = "Over the fixed rate" <=> Result.variance > 0
               /\ Result.status = "Under the fixed rate" <=> Result.variance < 0
               /\ Result.status = "On the fixed rate" <=> Result.variance = 0
        /\ Result.status = "No data" => InputCount = 0

\* An aggregation ended exactly on the rate.
C5_Witness ==
    /\ pc = "evri_done"
    /\ InputCount > 0
    /\ evri_metrics.variance = 0
    /\ evri_metrics.status = "On the fixed rate"

Abs(x) == IF x < 0 THEN -x ELSE x

\* C6: with a count above zero, in thousandths: spend is the summed money,
\* avg_cost is spend / count rounded to the nearest thousandth, variance is
\* avg_cost - fixed_rate and total_difference is variance * count, each
\* from the rounded field before it; ten despatches costing 31.00 at the
\* rate 3.10 give 3.10, 0.00, 0.00 and "On the fixed rate".
C6_RoundedChain ==
    (MetricsDone /\ InputCount > 0) =>
        /\ Result.despatches = InputCount
        /\ Result.spend = InputSpend
        /\ 2 * Abs(Result.avg_cost * InputCount - Result.spend) <= InputCount
        /\ Result.variance = Result.avg_cost - fixed_rate
        /\ Result.total_difference = Result.variance * InputCount
        /\ (pc = "fedex_done" /\ InputCount = 10 /\ InputSpend = 31000) =>
               Result = [despatches |-> 10, spend |-> 31000, avg_cost |-> 3100,
                         variance |-> 0, total_difference |-> 0,
                         status |-> "On the fixed rate"]

\* Ten despatches costing 31.00 were aggregated.
C6_Witness ==
    /\ pc = "fedex_done"
    /\ Len(fedex_df.rows) = 10
    /\ fedex_metrics.spend = 31000
    /\ fedex_metrics.avg_cost = 3100
    /\ divided

-----------------------------------------------------------------------------
(* Spec: main from the entered file names to the written tables.  The file *)
(* system gives each name a document or none; a list names at most         *)
(* MaxFiles files.  extract_text_from_pdf is the document's lines.         *)

MaxFiles == 2

FedexFileNames == {"FedEx 1.pdf", "FedEx 2.pdf"}
EvriFileNames == {"Evri 1.pdf", "Evri 2.pdf"}

Missing == [exists |-> FALSE, lines |-> <<>>]
Document(lines) == [exists |-> TRUE, lines |-> lines]

\* "Invoice summary"
HeaderLine ==
    <<"I", "n", "v", "o", "i", "c", "e", " ", "s", "u", "m", "m", "a",
      "r", "y">>

\* "123456789 13/10/2025 FedEx Priority 2.50 17.10"
ShipmentLineA ==
    <<"1", "2", "3", "4", "5", "6", "7", "8", "9", " ", "1", "3", "/",
      "1", "0", "/", "2", "0", "2", "5", " ", "F", "e", "d", "E", "x",
      " ", "P", "r", "i", "o", "r", "i", "t", "y", " ", "2", ".", "5",
      "0", " ", "1", "7", ".", "1", "0">>

\* "987654321 14/10/2025 0.00"
ShipmentLineB ==
    <<"9", "8", "7", "6", "5", "4", "3", "2", "1", " ", "1", "4", "/",
      "1", "0", "/", "2", "0", "2", "5", " ", "0", ".", "0", "0">>

\* "Fuel Surcharge 1 20.00 S 20.00"
FuelLine ==
    <<"F", "u", "e", "l", " ", "S", "u", "r", "c", "h", "a", "r", "g",
      "e", " ", "1", " ", "2", "0", ".", "0", "0", " ", "S", " ", "2",
      "0", ".", "0", "0">>

\* "Total , 5.28 S 190.08"
CommaLine ==
    <<"T", "o", "t", "a", "l", " ", ",", " ", "5", ".", "2", "8", " ",
      "S", " ", "1", "9", "0", ".", "0", "8">>

FedexDocuments ==
    { Missing, Document(<<HeaderLine>>), Document(<<ShipmentLineB>>),
      Document(<<ShipmentLineA, HeaderLine, ShipmentLineB>>) }

EvriDocuments ==
    { Missing, Document(<<HeaderLine>>), Document(<<CommaLine>>),
      Document(<<GoodEvriLine, HeaderLine, FuelLine>>) }

CsvTables ==
    {"summary_for_dashboard.csv", "fedex_cleaned.csv", "fedex_anomalies.csv",
     "evri_despatch.csv", "evri_extras.csv", "evri_excluded_zero_value.csv"}

Init ==
    /\ pc = "input"
    /\ \E ff \in [FedexFileNames -> FedexDocuments],
          ef \in [EvriFileNames -> EvriDocuments] : files = ff @@ ef
    /\ fedex_files \in SeqsUpTo(FedexFileNames, MaxFiles)
    /\ evri_files \in SeqsUpTo(EvriFileNames, MaxFiles)
    /\ idx = 0
    /\ fedex_frames = <<>>
    /\ evri_frames = <<>>
    /\ warnings = <<>>
    /\ written = {}
    /\ message = ""
    /\ error = "none"
    /\ TextIdle /\ TablesIdle /\ MetricsIdle

\* Lines 296-328: the two lists of names are read; an empty list ends the
\* run with a message.
ReadInputs ==
    /\ pc = "input"
    /\ IF fedex_files = <<>>
       THEN pc' = "exit" /\ message' = "No FedEx files provided. Exiting."
                         /\ idx' = idx
       ELSE IF evri_files = <<>>
       THEN pc' = "exit" /\ message' = "No Evri files provided. Exiting."
                         /\ idx' = idx
       ELSE pc' = "load_fedex" /\ message' = message /\ idx' = 1
    /\ UNCHANGED <<textVars, tableVars, metricVars, error, files, fedex_files,
                   evri_files, fedex_frames, evri_frames, warnings, written>>

\* Lines 340-349: one iteration of the loop over fedex_files.
LoadFedex ==
    /\ pc = "load_fedex"
    /\ idx <= Len(fedex_files)
    /\ LET name == fedex_files[idx]
       IN  IF ~files[name].exists
           THEN /\ warnings' = Append(warnings, name)
                /\ fedex_frames' = fedex_frames
           ELSE /\ fedex_frames' =
                       Append(fedex_frames,
                              WithSourceFile(
                                  DataFrame(ParseFedexRows(files[name].lines),
                                            FedexColumns),
                                  name))
                /\ warnings' = warnings
    /\ idx' = idx + 1
    /\ UNCHANGED <<textVars, tableVars, metricVars, error, pc, files,
                   fedex_files, evri_files, evri_frames, written, message>>

\* Lines 351-355: the frames are concatenated, or the run ends.
ConcatFedex ==
    /\ pc = "load_fedex"
    /\ idx > Len(fedex_files)
    /\ IF fedex_frames /= <<>>
       THEN /\ fedex_df' = Concat(fedex_frames)
            /\ pc' = "load_evri"
            /\ idx' = 1
            /\ message' = message
       ELSE /\ message' = "No valid FedEx data was loaded. Exiting."
            /\ pc' = "exit"
            /\ UNCHANGED <<fedex_df, idx>>
    /\ UNCHANGED <<textVars, metricVars, error, files, fedex_files, evri_files,
                   fedex_frames, evri_frames, warnings, written, evri_df,
                   evri_core, evri_excluded, evri_despatch, evri_extras,
                   fedex_anomalies>>

\* Lines 363-372: one iteration of the loop over evri_files; an exception
\* of parse_evri ends the run.
LoadEvri ==
    /\ pc = "load_evri"
    /\ idx <= Len(evri_files)
    /\ LET name == evri_files[idx]
           parsed == ParseEvriRows(files[name].lines)
       IN  IF ~files[name].exists
           THEN /\ warnings' = Append(warnings, name)
                /\ idx' = idx + 1
                /\ UNCHANGED <<evri_frames, pc, error>>
           ELSE IF parsed.raised
           THEN /\ pc' = "crashed"
                /\ error' = "ValueError"
                /\ UNCHANGED <<evri_frames, warnings, idx>>
           ELSE /\ evri_frames' =
                       Append(evri_frames,
                              WithSourceFile(DataFrame(parsed.rows, EvriColumns),
                                             name))
                /\ idx' = idx + 1
                /\ UNCHANGED <<warnings, pc, error>>
    /\ UNCHANGED <<textVars, tableVars, metricVars, files, fedex_files,
                   evri_files, fedex_frames, written, message>>

\* Lines 374-378: the frames are concatenated, or the run ends.
ConcatEvri ==
    /\ pc = "load_evri"
    /\ idx > Len(evri_files)
    /\ IF evri_frames /= <<>>
       THEN /\ evri_df' = Concat(evri_frames)
            /\ pc' = "clean"
            /\ message' = message
       ELSE /\ message' = "No valid Evri data was loaded. Exiting."
            /\ pc' = "exit"
            /\ evri_df' = evri_df
    /\ UNCHANGED <<textVars, metricVars, error, files, fedex_files, evri_files,
                   idx, fedex_frames, evri_frames, warnings, written, fedex_df,
                   evri_core, evri_excluded, evri_despatch, evri_extras,
                   fedex_anomalies>>

\* Line 422: fedex_anomalies = fedex_df[fedex_df["charge"] <= 0]; KeyError
\* on a frame without that column.
Anomalies ==
    /\ pc = "anomalies"
    /\ IF "charge" \in fedex_df.cols
       THEN /\ fedex_anomalies' =
                   [cols |-> fedex_df.cols,
                    rows |-> SelectRows(fedex_df.rows,
                                        {i \in DOMAIN fedex_df.rows :
                                             fedex_df.rows[i].charge.m <= 0},
                                        1)]
            /\ pc' = "write"
            /\ error' = error
       ELSE /\ pc' = "crashed"
            /\ error' = "KeyError"
            /\ fedex_anomalies' = fedex_anomalies
    /\ UNCHANGED <<textVars, mainVars, metricVars, fedex_df, evri_df, evri_core,
                   evri_excluded, evri_despatch, evri_extras>>

\* Lines 425-430: the six tables are written.
WriteCsvs ==
    /\ pc = "write"
    /\ written' = CsvTables
    /\ pc' = "done"
    /\ UNCHANGED <<textVars, tableVars, metricVars, error, files, fedex_files,
                   evri_files, idx, fedex_frames, evri_frames, warnings, message>>

Next ==
    \/ ReadInputs
    \/ LoadFedex
    \/ ConcatFedex
    \/ LoadEvri
    \/ ConcatEvri
    \/ CleanEvri
    \/ SplitEvriCore
    \/ FuelTotal
    \/ Metrics
    \/ Anomalies
    \/ WriteCsvs

Spec == Init /\ [][Next]_vars

-----------------------------------------------------------------------------
(* Statements about whole runs of main.                                    *)

Terminated == pc \in {"done", "exit", "crashed"}

\* The records the located documents of a list hold, document after
\* document, each tagged with the name of its document.
Tagged(records, name) ==
    [i \in DOMAIN records |-> records[i] @@ [source_file |-> name]]

RECURSIVE FedexRecordsOf(_)
FedexRecordsOf(names) ==
    IF names = <<>> THEN <<>>
    ELSE (IF files[Head(names)].exists
          THEN Tagged(ParseFedexRows(files[Head(names)].lines), Head(names))
          ELSE <<>>) \o FedexRecordsOf(Tail(names))

RECURSIVE EvriRecordsOf(_)
EvriRecordsOf(names) ==
    IF names = <<>> THEN <<>>
    ELSE (IF files[Head(names)].exists
          THEN Tagged(ParseEvriRows(files[Head(names)].lines).rows, Head(names))
          ELSE <<>>) \o EvriRecordsOf(Tail(names))

\* The names of a list whose document is missing, in the order of the list.
RECURSIVE MissingOf(_)
MissingOf(names) ==
    IF names = <<>> THEN <<>>
    ELSE (IF files[Head(names)].exists THEN <<>> ELSE <<Head(names)>>)
         \o MissingOf(Tail(names))

Located(names) == \E i \in DOMAIN names : files[names[i]].exists

\* C2: a run in which the documents of a carrier yield no record at all,
\* because every document is missing or because no line of the located
\* ones matches, ends with a message and without any table written; it
\* neither reaches the end of the pipeline nor fails on the way.  (Runs
\* that parse_evri ends with its ValueError are left aside here.)
C2_ZeroRecordsHalt ==
    ( /\ Terminated
      /\ error /= "ValueError"
      /\ fedex_files /= <<>> /\ evri_files /= <<>>
      /\ \/ FedexRecordsOf(fedex_files) = <<>>
         \/ EvriRecordsOf(evri_files) = <<>> )
    => /\ pc = "exit"
       /\ message /= ""
       /\ written = {}

\* C3: once a run has ended, the table of a carrier with a located document
\* holds the matching lines of its located documents, in the order of the
\* documents and of their lines, each tagged with its document; every
\* missing document has its warning and the documents after it were still
\* processed.  (FedEx is loaded first: the Evri table is looked at only
\* when FedEx has a located document.)
C3_TablesAreConcatenation ==
    ( /\ Terminated
      /\ fedex_files /= <<>> /\ evri_files /= <<>>
      /\ Located(fedex_files) )
    => /\ fedex_df.rows = FedexRecordsOf(fedex_files)
       /\ Located(evri_files) =>
              /\ evri_df.rows = EvriRecordsOf(evri_files)
              /\ warnings = MissingOf(fedex_files) \o MissingOf(evri_files)

=============================================================================
